---- MODULE Spec2Model ----
(***************************************************************************)
(* Chemharp.rs: the UnitCell and Atom wrappers (src/src/cell.rs,           *)
(* src/src/atom.rs, src/src/errors.rs) over the native chemfiles engine.   *)
(*                                                                         *)
(* The Rust methods are translated from the source.  The native functions  *)
(* they call (the chfl_cell and chfl_atom families) are not part of src/:  *)
(* they are modelled from spec.md sections 3 and 4 and are marked as such. *)
(* So is the string module (to_c, from_c).  The engine's handles are        *)
(* reference-counted (spec.md 3 and 9).                                    *)
(*                                                                         *)
(* Numbers.  f64 values are modelled by exact integers.  Angles are drawn  *)
(* from the few values whose cosine is a multiple of 1/5 (53 and 127 stand *)
(* for arccos(3/5) and arccos(-3/5)), and lengths are multiples of 10, so  *)
(* that every matrix entry, norm and dot product is an integer and the     *)
(* conversions lengths/angles <-> matrix are computed, not assumed.  NaN   *)
(* stands for every non-finite f64 (0/0, x/0 and what follows from them).  *)
(***************************************************************************)
EXTENDS Integers, Sequences, FiniteSets, TLC

VARIABLES
    heap,       \* native objects by handle (what the CHFL_CELL / CHFL_ATOM pointers point to)
    last,       \* the last call made through the Rust API: op, receiver, argument, result, heap before
    rounding,   \* the convention of round() in the native build
    vector,     \* the caller's [f64; 3] that wrap() mutates in place
    wrapped,    \* the values wrap() has left in vector, in order
    shared,     \* native: the references the engine has handed out on a cell beyond its first
    owned,      \* the live owned UnitCell values, counted by the handle they hold
    views       \* the live UnitCellRef / UnitCellMut values, counted by the handle their inner UnitCell holds

vars == <<heap, last, rounding, vector, wrapped, shared, owned, views>>

(***************************************************************************)
(* Bounds of the model.                                                    *)
(***************************************************************************)
MaxLenUnits == 1
MaxWraps == 2
MaxViews == 2

\* Two native objects can be alive at once: a value and its clone.
Handles == {1, 2}

NULL == 0

(***************************************************************************)
(* f64 arithmetic on the modelled values.                                  *)
(***************************************************************************)
NaN == 1000000

Abs(x) == IF x < 0 THEN -x ELSE x

Add(x, y) == IF x = NaN \/ y = NaN THEN NaN ELSE x + y

Sub(x, y) == IF x = NaN \/ y = NaN THEN NaN ELSE x - y

Mul(x, y) == IF x = NaN \/ y = NaN THEN NaN ELSE x * y

\* n / d where the quotient is representable; a zero divisor gives a non-finite value
ExactDiv(n, d) ==
    IF n = NaN \/ d = NaN \/ d = 0 THEN NaN
    ELSE LET q == IF d > 0 THEN n \div d ELSE (-n) \div (-d)
         IN  CHOOSE x \in {q} : x * d = n

\* sqrt, with a negative radicand clamped to 0 (spec.md 4.1, set_angles)
RECURSIVE SqrtSearch(_, _, _)
SqrtSearch(n, lo, hi) ==
    IF lo = hi THEN lo
    ELSE LET mid == (lo + hi + 1) \div 2
         IN  IF mid * mid <= n THEN SqrtSearch(n, mid, hi) ELSE SqrtSearch(n, lo, mid - 1)

Sqrt(n) ==
    IF n = NaN THEN NaN
    ELSE IF n <= 0 THEN 0
    ELSE CHOOSE k \in {SqrtSearch(n, 0, n)} : k * k = n

\* 5 * cos(t) and 5 * sin(t), t in degrees
Cos5(t) ==
    CASE t = NaN -> NaN
      [] t = 0 -> 5
      [] t = 53 -> 3
      [] t = 90 -> 0
      [] t = 127 -> -3
      [] t = 180 -> -5
      [] t = 270 -> 0

Sin5(t) ==
    CASE t = NaN -> NaN
      [] t = 0 -> 0
      [] t = 53 -> 4
      [] t = 90 -> 5
      [] t = 127 -> 4
      [] t = 180 -> 0
      [] t = 270 -> -5

\* acos(c / 5) in degrees
ACos5(c) ==
    CASE c = NaN -> NaN
      [] c = 5 -> 0
      [] c = 3 -> 53
      [] c = 0 -> 90
      [] c = -3 -> 127
      [] c = -5 -> 180

Right == <<90, 90, 90>>

Dot(u, v) == Add(Add(Mul(u[1], v[1]), Mul(u[2], v[2])), Mul(u[3], v[3]))

Norm(u) == Sqrt(Dot(u, u))

Column(m, j) == <<m[1][j], m[2][j], m[3][j]>>

(***************************************************************************)
(* The native cell: a shape tag and the upper-triangular matrix            *)
(*     | a_x b_x c_x |                                                     *)
(*     |  0  b_y c_y |                                                     *)
(*     |  0   0  c_z |                                                     *)
(* which is the only stored geometry (spec.md 3).                          *)
(***************************************************************************)
\* chfl_cellshape, the shape tag of the native cell
CHFL_CELL_ORTHORHOMBIC == "CHFL_CELL_ORTHORHOMBIC"
CHFL_CELL_TRICLINIC == "CHFL_CELL_TRICLINIC"
CHFL_CELL_INFINITE == "CHFL_CELL_INFINITE"

\* the matrix of lengths l and angles ang (spec.md 4.1, set_angles)
BuildMatrix(l, ang) ==
    LET ca == Cos5(ang[1])
        cb == Cos5(ang[2])
        cg == Cos5(ang[3])
        sg == Sin5(ang[3])
        bx == ExactDiv(Mul(l[2], cg), 5)
        by == ExactDiv(Mul(l[2], sg), 5)
        cx == ExactDiv(Mul(l[3], cb), 5)
        cy == ExactDiv(Mul(l[3], Sub(Mul(5, ca), Mul(cb, cg))), Mul(5, sg))
        cz == Sqrt(Sub(Sub(Mul(l[3], l[3]), Mul(cx, cx)), Mul(cy, cy)))
    IN  <<<<l[1], bx, cx>>, <<0, by, cy>>, <<0, 0, cz>>>>

\* the norms of the matrix columns (spec.md 4.1, lengths)
MatrixLengths(m) == <<Norm(Column(m, 1)), Norm(Column(m, 2)), Norm(Column(m, 3))>>

\* acos(u.v / (|u| |v|)) in degrees
AngleBetween(u, v) == ACos5(ExactDiv(Mul(5, Dot(u, v)), Mul(Norm(u), Norm(v))))

\* alpha = (b, c), beta = (a, c), gamma = (a, b)  (spec.md 4.1, angles)
MatrixAngles(m) ==
    <<AngleBetween(Column(m, 2), Column(m, 3)),
      AngleBetween(Column(m, 1), Column(m, 3)),
      AngleBetween(Column(m, 1), Column(m, 2))>>

Free == [kind |-> "free"]

Cell(shape, m) == [kind |-> "cell", shape |-> shape, m |-> m]

IsCell(o) == o.kind = "cell"

AnyNegative(l) == \E i \in 1..3 : l[i] < 0

AngleInRange(t) == 0 < t /\ t < 180

\* statuses of the native engine (chfl_status)
CHFL_SUCCESS == "CHFL_SUCCESS"
CHFL_CXX_ERROR == "CHFL_CXX_ERROR"
CHFL_GENERIC_ERROR == "CHFL_GENERIC_ERROR"
CHFL_MEMORY_ERROR == "CHFL_MEMORY_ERROR"
CHFL_FILE_ERROR == "CHFL_FILE_ERROR"
CHFL_FORMAT_ERROR == "CHFL_FORMAT_ERROR"
CHFL_SELECTION_ERROR == "CHFL_SELECTION_ERROR"

\* malloc of the native engine: the lowest unused handle, NULL when memory is exhausted
Allocate(hp) ==
    IF \E h \in Handles : hp[h] = Free
    THEN CHOOSE h \in Handles : hp[h] = Free /\ \A g \in Handles : g < h => hp[g] # Free
    ELSE NULL

\* the native call returning a pointer to a new object o
NewObject(hp, o) ==
    LET p == Allocate(hp)
    IN  IF p = NULL THEN [ptr |-> NULL, heap |-> hp]
        ELSE [ptr |-> p, heap |-> [hp EXCEPT ![p] = o]]

\* chfl_cell(lengths): a pointer to a new Orthorhombic cell, or NULL
chfl_cell(hp, l) ==
    IF AnyNegative(l) THEN [ptr |-> NULL, heap |-> hp]
    ELSE NewObject(hp, Cell(CHFL_CELL_ORTHORHOMBIC, BuildMatrix(l, Right)))

\* chfl_cell_triclinic(lengths, angles): a pointer to a new Triclinic cell, or NULL
chfl_cell_triclinic(hp, l, ang) ==
    IF AnyNegative(l) \/ \E i \in 1..3 : ~AngleInRange(ang[i])
    THEN [ptr |-> NULL, heap |-> hp]
    ELSE NewObject(hp, Cell(CHFL_CELL_TRICLINIC, BuildMatrix(l, ang)))

\* chfl_cell_copy(cell): a pointer to a deep copy of the object, or NULL
chfl_cell_copy(hp, h) == NewObject(hp, Cell(hp[h].shape, hp[h].m))

\* the engine hands out one more pointer to a cell that a parent holds, and counts it
SharedPtr(sh, h) == [ptr |-> h, shared |-> [sh EXCEPT ![h] = @ + 1]]

\* chfl_cell_free(cell): gives back one reference to the cell; the cell is released
\* with its last reference; a pointer to no live cell is refused
chfl_cell_free(hp, sh, h) ==
    IF ~IsCell(hp[h])
    THEN [status |-> CHFL_MEMORY_ERROR, heap |-> hp, shared |-> sh]
    ELSE IF sh[h] > 0
         THEN [status |-> CHFL_SUCCESS, heap |-> hp, shared |-> [sh EXCEPT ![h] = @ - 1]]
         ELSE [status |-> CHFL_SUCCESS, heap |-> [hp EXCEPT ![h] = Free], shared |-> sh]

chfl_cell_shape(o) == o.shape

chfl_cell_matrix(o) == o.m

\* the reporting layer: an Infinite cell reports zero lengths
chfl_cell_lengths(o) ==
    IF o.shape = CHFL_CELL_INFINITE THEN <<0, 0, 0>> ELSE MatrixLengths(o.m)

\* the reporting layer: only a Triclinic cell reports the angles of its matrix
chfl_cell_angles(o) ==
    IF o.shape = CHFL_CELL_TRICLINIC THEN MatrixAngles(o.m) ELSE Right

\* chfl_cell_set_lengths: the matrix is rebuilt from the existing angles and the new lengths
chfl_cell_set_lengths(o, l) ==
    [status |-> CHFL_SUCCESS,
     obj |-> Cell(o.shape, BuildMatrix(l, chfl_cell_angles(o)))]

\* a set_angles that rebuilds the matrix before it looks at the shape
chfl_cell_set_anglesThenReject(o, ang) ==
    [status |-> IF o.shape # CHFL_CELL_TRICLINIC THEN CHFL_GENERIC_ERROR ELSE CHFL_SUCCESS,
     obj |-> Cell(o.shape, BuildMatrix(MatrixLengths(o.m), ang))]

\* chfl_cell_set_angles: legal on a Triclinic cell only
chfl_cell_set_angles(o, ang) ==
    IF o.shape # CHFL_CELL_TRICLINIC
    THEN [status |-> CHFL_GENERIC_ERROR, obj |-> o]
    ELSE [status |-> CHFL_SUCCESS,
          obj |-> Cell(o.shape, BuildMatrix(MatrixLengths(o.m), ang))]

\* chfl_cell_set_shape: Orthorhombic snaps the angles to 90, the others keep the matrix
chfl_cell_set_shape(o, s) ==
    [status |-> CHFL_SUCCESS,
     obj |-> IF s = CHFL_CELL_ORTHORHOMBIC
             THEN Cell(s, BuildMatrix(MatrixLengths(o.m), Right))
             ELSE Cell(s, o.m)]

\* round(n / d) for d # 0, under the convention mode of the native build
Round(n, d, mode) ==
    LET nn == IF d < 0 THEN -n ELSE n
        dd == Abs(d)
        fl == nn \div dd
        r2 == 2 * (nn - fl * dd)
    IN  IF r2 < dd THEN fl
        ELSE IF r2 > dd THEN fl + 1
        ELSE IF mode = "half_away_from_zero" THEN (IF nn >= 0 THEN fl + 1 ELSE fl)
        ELSE IF fl % 2 = 0 THEN fl ELSE fl + 1

\* round of a fractional coordinate n / d; a zero or non-finite divisor gives a non-finite value
RoundFrac(n, d, mode) ==
    IF n = NaN \/ d = NaN \/ d = 0 THEN NaN ELSE Round(n, d, mode)

\* the fractional coordinates f of v, matrix . f = v by back-substitution, as
\* <<numerator, denominator>> pairs (spec.md 4.2)
Fractional(m, v) ==
    LET yz == Sub(Mul(v[2], m[3][3]), Mul(m[2][3], v[3]))
    IN  <<<<Sub(Sub(Mul(v[1], Mul(m[2][2], m[3][3])), Mul(m[1][2], yz)),
                Mul(m[1][3], Mul(v[3], m[2][2]))),
            Mul(m[1][1], Mul(m[2][2], m[3][3]))>>,
          <<yz, Mul(m[2][2], m[3][3])>>,
          <<v[3], m[3][3]>>>>

\* chfl_cell_wrap: f_i -= round(f_i), then back to Cartesian: v - matrix . round(f).
\* An Infinite cell leaves the vector alone.
chfl_cell_wrap(o, v, mode) ==
    IF o.shape = CHFL_CELL_INFINITE THEN v
    ELSE LET f == Fractional(o.m, v)
             n == [i \in 1..3 |-> RoundFrac(f[i][1], f[i][2], mode)]
         IN  IF \E i \in 1..3 : n[i] = NaN THEN <<NaN, NaN, NaN>>
             ELSE [i \in 1..3 |-> Sub(v[i], Dot(o.m[i], n))]

(***************************************************************************)
(* The native atom: name, type, mass, charge (spec.md 3).  Masses and      *)
(* charges are in millionths.                                              *)
(***************************************************************************)
Atom(name, type, mass, charge) ==
    [kind |-> "atom", name |-> name, type |-> type, mass |-> mass, charge |-> charge]

IsAtom(o) == o.kind = "atom"

\* the byte 0 that ends a C string, written as a character no input contains
NUL == "@"

Min(x, y) == IF x < y THEN x ELSE y

\* the characters of a C string: those before its first NUL
CString(p) ==
    LET n == CHOOSE i \in 1..Len(p) :
                 /\ SubSeq(p, i, i) = NUL
                 /\ \A j \in 1..(i - 1) : SubSeq(p, j, j) # NUL
    IN  SubSeq(p, 1, n - 1)

RECURSIVE Nuls(_)
Nuls(n) == IF n = 0 THEN "" ELSE NUL \o Nuls(n - 1)

\* the native copy of a string into the caller's buffer of buffsize bytes: at most
\* buffsize - 1 characters, then NUL
CopyToBuffer(str, buffsize) ==
    LET n == Min(Len(str), buffsize - 1)
    IN  SubSeq(str, 1, n) \o Nuls(buffsize - n)

\* the external element table (spec.md 6); masses in millionths, radii in hundredths
KnownElements == {"He", "P", "Zn"}

\* the mass of an element of the periodic table, 0 for an unknown type
ElementMass(type) ==
    CASE type = "He" -> 4002602
      [] type = "P" -> 30973762
      [] type = "Zn" -> 65380000
      [] OTHER -> 0

\* the missing-value sentinel -1 of the radii, in hundredths
NoRadius == 0 - 100

ElementFullName(type) ==
    CASE type = "He" -> "Helium"
      [] type = "P" -> "Phosphorus"
      [] type = "Zn" -> "Zinc"
      [] OTHER -> ""

ElementVdwRadius(type) ==
    CASE type = "He" -> 140
      [] type = "P" -> 180
      [] type = "Zn" -> 139
      [] OTHER -> NoRadius

ElementCovalentRadius(type) ==
    CASE type = "He" -> 32
      [] type = "P" -> 107
      [] type = "Zn" -> 122
      [] OTHER -> NoRadius

ElementNumber(type) ==
    CASE type = "He" -> 2
      [] type = "P" -> 15
      [] type = "Zn" -> 30
      [] OTHER -> 0 - 1

\* chfl_atom(name): a pointer to a new atom whose name and type are the C string
\* name, or NULL
chfl_atom(hp, name) ==
    NewObject(hp, Atom(CString(name), CString(name), ElementMass(CString(name)), 0))

\* chfl_atom_free(atom)
chfl_atom_free(hp, h) == [status |-> CHFL_SUCCESS, heap |-> [hp EXCEPT ![h] = Free]]

chfl_atom_mass(o) == [status |-> CHFL_SUCCESS, value |-> o.mass]

chfl_atom_charge(o) == [status |-> CHFL_SUCCESS, value |-> o.charge]

chfl_atom_name(o, buffsize) ==
    [status |-> CHFL_SUCCESS, buffer |-> CopyToBuffer(o.name, buffsize)]

chfl_atom_type(o, buffsize) ==
    [status |-> CHFL_SUCCESS, buffer |-> CopyToBuffer(o.type, buffsize)]

chfl_atom_full_name(o, buffsize) ==
    [status |-> CHFL_SUCCESS, buffer |-> CopyToBuffer(ElementFullName(o.type), buffsize)]

chfl_atom_vdw_radius(o) == [status |-> CHFL_SUCCESS, value |-> ElementVdwRadius(o.type)]

chfl_atom_covalent_radius(o) ==
    [status |-> CHFL_SUCCESS, value |-> ElementCovalentRadius(o.type)]

chfl_atom_atomic_number(o) == [status |-> CHFL_SUCCESS, value |-> ElementNumber(o.type)]

chfl_atom_set_mass(o, mass) ==
    [status |-> CHFL_SUCCESS, obj |-> Atom(o.name, o.type, mass, o.charge)]

chfl_atom_set_charge(o, charge) ==
    [status |-> CHFL_SUCCESS, obj |-> Atom(o.name, o.type, o.mass, charge)]

chfl_atom_set_name(o, name) ==
    [status |-> CHFL_SUCCESS, obj |-> Atom(CString(name), o.type, o.mass, o.charge)]

chfl_atom_set_type(o, type) ==
    [status |-> CHFL_SUCCESS, obj |-> Atom(o.name, CString(type), o.mass, o.charge)]

(***************************************************************************)
(* errors.rs                                                               *)
(***************************************************************************)
Ok == "Ok"

Panic == "panic"

\* the status values of the native engine
Statuses ==
    {CHFL_SUCCESS, CHFL_CXX_ERROR, CHFL_GENERIC_ERROR, CHFL_MEMORY_ERROR,
     CHFL_FILE_ERROR, CHFL_FORMAT_ERROR, CHFL_SELECTION_ERROR}

\* a conversion with the arms of CHFL_MEMORY_ERROR and CHFL_FILE_ERROR exchanged
ErrorFromSwapped(status) ==
    CASE status = CHFL_CXX_ERROR -> "CppStdError"
      [] status = CHFL_GENERIC_ERROR -> "ChemfilesCppError"
      [] status = CHFL_MEMORY_ERROR -> "FileError"
      [] status = CHFL_FILE_ERROR -> "MemoryError"
      [] status = CHFL_FORMAT_ERROR -> "FormatError"
      [] status = CHFL_SELECTION_ERROR -> "SelectionError"
      [] OTHER -> Panic

\* impl From<CHFL_STATUS> for Error: the kind of the error; any other status is unreachable!()
ErrorFrom(status) ==
    CASE status = CHFL_CXX_ERROR -> "CppStdError"
      [] status = CHFL_GENERIC_ERROR -> "ChemfilesCppError"
      [] status = CHFL_MEMORY_ERROR -> "MemoryError"
      [] status = CHFL_FILE_ERROR -> "FileError"
      [] status = CHFL_FORMAT_ERROR -> "FormatError"
      [] status = CHFL_SELECTION_ERROR -> "SelectionError"
      [] OTHER -> Panic

\* Error::null_ptr()
null_ptr == "NullPtr"

\* a check that lets every status through
checkAlwaysOk(status) == Ok

\* check(status)
check(status) == IF status # CHFL_SUCCESS THEN ErrorFrom(status) ELSE Ok

(***************************************************************************)
(* cell.rs: the getters, as functions of the object a UnitCell points to.  *)
(* Each is check(native call)?; Ok(value), and the native getters of a     *)
(* live cell succeed.                                                      *)
(***************************************************************************)
\* UnitCell::from_ptr
from_ptr(ptr) == IF ptr = NULL THEN null_ptr ELSE Ok

\* UnitCell::lengths
lengths(o) == chfl_cell_lengths(o)

\* UnitCell::angles
angles(o) == chfl_cell_angles(o)

\* enum CellShape
Orthorhombic == "Orthorhombic"
Triclinic == "Triclinic"
Infinite == "Infinite"
Shapes == {Orthorhombic, Triclinic, Infinite}

\* the conversion with the arms of Orthorhombic and Triclinic exchanged
CellShapeFromSwapped(celltype) ==
    CASE celltype = CHFL_CELL_ORTHORHOMBIC -> Triclinic
      [] celltype = CHFL_CELL_TRICLINIC -> Orthorhombic
      [] celltype = CHFL_CELL_INFINITE -> Infinite

\* impl From<chfl_cellshape> for CellShape
CellShapeFrom(celltype) ==
    CASE celltype = CHFL_CELL_ORTHORHOMBIC -> Orthorhombic
      [] celltype = CHFL_CELL_TRICLINIC -> Triclinic
      [] celltype = CHFL_CELL_INFINITE -> Infinite

\* the conversion with the arms of Orthorhombic and Triclinic exchanged
ChflCellshapeFromSwapped(celltype) ==
    CASE celltype = Orthorhombic -> CHFL_CELL_TRICLINIC
      [] celltype = Triclinic -> CHFL_CELL_ORTHORHOMBIC
      [] celltype = Infinite -> CHFL_CELL_INFINITE

\* impl From<CellShape> for chfl_cellshape
ChflCellshapeFrom(celltype) ==
    CASE celltype = Orthorhombic -> CHFL_CELL_ORTHORHOMBIC
      [] celltype = Triclinic -> CHFL_CELL_TRICLINIC
      [] celltype = Infinite -> CHFL_CELL_INFINITE

\* UnitCell::shape
shape(o) == CellShapeFrom(chfl_cell_shape(o))

\* UnitCell::matrix
matrix(o) == chfl_cell_matrix(o)

Cells(hp) == {h \in Handles : IsCell(hp[h])}

Atoms(hp) == {h \in Handles : IsAtom(hp[h])}

EmptyHeap == [h \in Handles |-> Free]

NoValues == [h \in Handles |-> 0]

\* one owned UnitCell for every cell of the heap
OwnersOf(hp) == [h \in Handles |-> IF IsCell(hp[h]) THEN 1 ELSE 0]

(***************************************************************************)
(* Arguments the callers pass.                                             *)
(***************************************************************************)
LengthInputs == {<<-10, 10, 10>>} \cup {<<10 * k, 10 * k, 10 * k>> : k \in 0..MaxLenUnits}

AngleInputs == {Right, <<90, 90, 53>>, <<180, 90, 90>>, <<90, 90, 270>>}

VectorInputs == {<<x, y, z>> : x \in {-15, -5, -3, 3, 5, 12}, y \in {-4, 0, 4}, z \in {-5, 0}}

NameInputs == {"He", "Zn-12"}

TypeInputs == {"He", "Zn"}

MassInputs == {15000000}

ChargeInputs == {-1500000}

Call(op, h, arg, res) == [op |-> op, h |-> h, arg |-> arg, res |-> res, pre |-> heap]

(***************************************************************************)
(* cell.rs: constructors, clone, setters, drop.                            *)
(***************************************************************************)
\* UnitCell::from_ptr: Ok(UnitCell { handle: ptr }), one more owned value holding ptr
Owning(ptr) == IF from_ptr(ptr) = Ok THEN [owned EXCEPT ![ptr] = @ + 1] ELSE owned

\* UnitCell::new(lengths)
new(l) ==
    LET r == chfl_cell(heap, l)
    IN  /\ heap' = r.heap
        /\ last' = Call("new", r.ptr, l, from_ptr(r.ptr))
        /\ owned' = Owning(r.ptr)
        /\ UNCHANGED <<rounding, vector, wrapped, shared, views>>

\* UnitCell::triclinic(lengths, angles)
triclinic(l, ang) ==
    LET r == chfl_cell_triclinic(heap, l, ang)
    IN  /\ heap' = r.heap
        /\ last' = Call("triclinic", r.ptr, <<l, ang>>, from_ptr(r.ptr))
        /\ owned' = Owning(r.ptr)
        /\ UNCHANGED <<rounding, vector, wrapped, shared, views>>

\* an infinite() that stops after new([0, 0, 0])
infiniteWithoutShape ==
    LET r == chfl_cell(heap, <<0, 0, 0>>)
    IN  /\ heap' = r.heap
        /\ last' = Call("infinite", r.ptr, <<>>, from_ptr(r.ptr))
        /\ owned' = Owning(r.ptr)
        /\ UNCHANGED <<rounding, vector, wrapped, shared, views>>

\* UnitCell::infinite(): new([0, 0, 0])?, then set_shape(Infinite)?; on the second
\* failure the cell goes out of scope and is dropped
infinite ==
    LET r == chfl_cell(heap, <<0, 0, 0>>)
    IN  /\ IF from_ptr(r.ptr) # Ok
           THEN /\ heap' = r.heap
                /\ last' = Call("infinite", NULL, <<>>, from_ptr(r.ptr))
                /\ owned' = owned
           ELSE LET s == chfl_cell_set_shape(r.heap[r.ptr], ChflCellshapeFrom(Infinite))
                IN  IF check(s.status) # Ok
                    THEN /\ heap' = chfl_cell_free(r.heap, shared, r.ptr).heap
                         /\ last' = Call("infinite", NULL, <<>>, check(s.status))
                         /\ owned' = owned
                    ELSE /\ heap' = [r.heap EXCEPT ![r.ptr] = s.obj]
                         /\ last' = Call("infinite", r.ptr, <<>>, Ok)
                         /\ owned' = Owning(r.ptr)
        /\ UNCHANGED <<rounding, vector, wrapped, shared, views>>

\* a clone that copies the handle instead of the object
cloneShallow(h) ==
    /\ h \in Cells(heap)
    /\ heap' = heap
    /\ last' = Call("clone", h, h, Ok)
    /\ owned' = Owning(h)
    /\ UNCHANGED <<rounding, vector, wrapped, shared, views>>

\* impl Clone for UnitCell: chfl_cell_copy, then from_ptr(..).expect(..)
clone(h) ==
    /\ h \in Cells(heap)
    /\ LET r == chfl_cell_copy(heap, h)
       IN  /\ heap' = r.heap
           /\ last' = Call("clone", h, r.ptr,
                           IF from_ptr(r.ptr) = Ok THEN Ok ELSE Panic)
           /\ owned' = Owning(r.ptr)
    /\ UNCHANGED <<rounding, vector, wrapped, shared, views>>

\* a set_lengths that calls the getter chfl_cell_lengths on its argument
set_lengthsAsGetter(h, l) ==
    /\ h \in Cells(heap)
    /\ heap' = heap
    /\ last' = Call("set_lengths", h, l, check(CHFL_SUCCESS))
    /\ UNCHANGED <<rounding, vector, wrapped, shared, owned, views>>

\* UnitCell::set_lengths(lengths)
set_lengths(h, l) ==
    /\ h \in Cells(heap)
    /\ LET r == chfl_cell_set_lengths(heap[h], l)
       IN  /\ heap' = [heap EXCEPT ![h] = r.obj]
           /\ last' = Call("set_lengths", h, l, check(r.status))
    /\ UNCHANGED <<rounding, vector, wrapped, shared, owned, views>>

\* UnitCell::set_angles(angles)
set_angles(h, ang) ==
    /\ h \in Cells(heap)
    /\ LET r == chfl_cell_set_angles(heap[h], ang)
       IN  /\ heap' = [heap EXCEPT ![h] = r.obj]
           /\ last' = Call("set_angles", h, ang, check(r.status))
    /\ UNCHANGED <<rounding, vector, wrapped, shared, owned, views>>

\* UnitCell::set_shape(shape)
set_shape(h, s) ==
    /\ h \in Cells(heap)
    /\ LET r == chfl_cell_set_shape(heap[h], ChflCellshapeFrom(s))
       IN  /\ heap' = [heap EXCEPT ![h] = r.obj]
           /\ last' = Call("set_shape", h, s, check(r.status))
    /\ UNCHANGED <<rounding, vector, wrapped, shared, owned, views>>

\* a ref_from_ptr given the handle of the parent itself, which the engine has
\* not counted a second time
ref_from_ptrOfOwner(h) ==
    /\ owned[h] > 0
    /\ views[h] < MaxViews
    /\ views' = IF from_ptr(h) = Ok THEN [views EXCEPT ![h] = @ + 1] ELSE views
    /\ last' = Call("ref_from_ptr", h, <<>>, from_ptr(h))
    /\ UNCHANGED <<heap, rounding, vector, wrapped, shared, owned>>

\* UnitCell::ref_from_ptr(ptr), on a pointer the engine handed out for the cell of
\* a parent: UnitCellRef { inner: UnitCell::from_ptr(ptr)?, marker }
ref_from_ptr(h) ==
    /\ owned[h] > 0
    /\ views[h] < MaxViews
    /\ LET r == SharedPtr(shared, h)
       IN  /\ shared' = r.shared
           /\ views' = IF from_ptr(r.ptr) = Ok THEN [views EXCEPT ![r.ptr] = @ + 1] ELSE views
           /\ last' = Call("ref_from_ptr", r.ptr, <<>>, from_ptr(r.ptr))
    /\ UNCHANGED <<heap, rounding, vector, wrapped, owned>>

\* UnitCell::ref_mut_from_ptr(ptr): UnitCellMut { inner: UnitCell::from_ptr(ptr)?, marker }
ref_mut_from_ptr(h) ==
    /\ owned[h] > 0
    /\ views[h] < MaxViews
    /\ LET r == SharedPtr(shared, h)
       IN  /\ shared' = r.shared
           /\ views' = IF from_ptr(r.ptr) = Ok THEN [views EXCEPT ![r.ptr] = @ + 1] ELSE views
           /\ last' = Call("ref_mut_from_ptr", r.ptr, <<>>, from_ptr(r.ptr))
    /\ UNCHANGED <<heap, rounding, vector, wrapped, owned>>

\* a UnitCellRef or UnitCellMut goes out of scope: its field inner is a UnitCell
\* and is dropped as one
view_drop(h) ==
    /\ views[h] > 0
    /\ LET r == chfl_cell_free(heap, shared, h)
       IN  /\ heap' = r.heap
           /\ shared' = r.shared
           /\ last' = Call("view_drop", h, <<>>, IF r.status = CHFL_SUCCESS THEN Ok ELSE Panic)
    /\ views' = [views EXCEPT ![h] = @ - 1]
    /\ UNCHANGED <<rounding, vector, wrapped, owned>>

\* impl Drop for UnitCell, of an owned value: chfl_cell_free, then
\* debug_assert_eq!(status, CHFL_SUCCESS)
drop(h) ==
    /\ owned[h] > 0
    /\ LET r == chfl_cell_free(heap, shared, h)
       IN  /\ heap' = r.heap
           /\ shared' = r.shared
           /\ last' = Call("drop", h, <<>>, IF r.status = CHFL_SUCCESS THEN Ok ELSE Panic)
    /\ owned' = [owned EXCEPT ![h] = @ - 1]
    /\ UNCHANGED <<rounding, vector, wrapped, views>>

\* a wrap that hands the native function a copy of the vector
wrapCopy(h) ==
    /\ h \in Cells(heap)
    /\ Len(wrapped) < MaxWraps
    /\ vector' = vector
    /\ wrapped' = Append(wrapped, vector')
    /\ last' = Call("wrap", h, vector, check(CHFL_SUCCESS))
    /\ UNCHANGED <<heap, rounding, shared, owned, views>>

\* UnitCell::wrap(&mut vector)
wrap(h) ==
    /\ h \in Cells(heap)
    /\ Len(wrapped) < MaxWraps
    /\ vector' = chfl_cell_wrap(heap[h], vector, rounding)
    /\ wrapped' = Append(wrapped, vector')
    /\ last' = Call("wrap", h, vector, check(CHFL_SUCCESS))
    /\ UNCHANGED <<heap, rounding, shared, owned, views>>

(***************************************************************************)
(* atom.rs                                                                 *)
(***************************************************************************)
\* string::to_c: the C string of a Rust string, its bytes and the terminating NUL
\* Atom::from_ptr
atom_from_ptr(ptr) == IF ptr = NULL THEN null_ptr ELSE Ok

to_c(str) == str \o NUL

\* string::from_c: the Rust string of the C string a pointer points to
from_c(buffer) == CString(buffer)

\* vec![0; 10], the buffer of name(), atom_type() and full_name()
BufferLen == 10

\* Atom::mass
atom_mass(o) == chfl_atom_mass(o).value

\* Atom::charge
atom_charge(o) == chfl_atom_charge(o).value

\* Atom::name
atom_name(o) == from_c(chfl_atom_name(o, BufferLen).buffer)

\* Atom::atom_type
atom_type(o) == from_c(chfl_atom_type(o, BufferLen).buffer)

\* Atom::full_name
full_name(o) == from_c(chfl_atom_full_name(o, BufferLen).buffer)

\* Atom::vdw_radius
vdw_radius(o) == chfl_atom_vdw_radius(o).value

\* Atom::covalent_radius
covalent_radius(o) == chfl_atom_covalent_radius(o).value

\* Atom::atomic_number
atomic_number(o) == chfl_atom_atomic_number(o).value

\* Atom::new(name)
atom_new(str) ==
    LET r == chfl_atom(heap, to_c(str))
    IN  /\ heap' = r.heap
        /\ last' = Call("atom_new", r.ptr, str, atom_from_ptr(r.ptr))
        /\ UNCHANGED <<rounding, vector, wrapped, shared, owned, views>>

\* impl Drop for Atom
atom_drop(h) ==
    /\ h \in Atoms(heap)
    /\ LET r == chfl_atom_free(heap, h)
       IN  /\ heap' = r.heap
           /\ last' = Call("atom_drop", h, <<>>,
                           IF check(r.status) = Ok THEN Ok ELSE Panic)
    /\ UNCHANGED <<rounding, vector, wrapped, shared, owned, views>>

\* Atom::set_mass(mass)
set_mass(h, mass) ==
    /\ h \in Atoms(heap)
    /\ LET r == chfl_atom_set_mass(heap[h], mass)
       IN  /\ heap' = [heap EXCEPT ![h] = r.obj]
           /\ last' = Call("set_mass", h, mass, check(r.status))
    /\ UNCHANGED <<rounding, vector, wrapped, shared, owned, views>>

\* Atom::set_charge(charge)
set_charge(h, charge) ==
    /\ h \in Atoms(heap)
    /\ LET r == chfl_atom_set_charge(heap[h], charge)
       IN  /\ heap' = [heap EXCEPT ![h] = r.obj]
           /\ last' = Call("set_charge", h, charge, check(r.status))
    /\ UNCHANGED <<rounding, vector, wrapped, shared, owned, views>>

\* Atom::set_name(name)
set_name(h, name) ==
    /\ h \in Atoms(heap)
    /\ LET r == chfl_atom_set_name(heap[h], to_c(name))
       IN  /\ heap' = [heap EXCEPT ![h] = r.obj]
           /\ last' = Call("set_name", h, name, check(r.status))
    /\ UNCHANGED <<rounding, vector, wrapped, shared, owned, views>>

\* a set_atom_type that calls chfl_atom_set_name
set_atom_typeAsName(h, type) ==
    /\ h \in Atoms(heap)
    /\ LET r == chfl_atom_set_name(heap[h], to_c(type))
       IN  /\ heap' = [heap EXCEPT ![h] = r.obj]
           /\ last' = Call("set_atom_type", h, type, check(r.status))
    /\ UNCHANGED <<rounding, vector, wrapped, shared, owned, views>>

\* Atom::set_atom_type(name)
set_atom_type(h, type) ==
    /\ h \in Atoms(heap)
    /\ LET r == chfl_atom_set_type(heap[h], to_c(type))
       IN  /\ heap' = [heap EXCEPT ![h] = r.obj]
           /\ last' = Call("set_atom_type", h, type, check(r.status))
    /\ UNCHANGED <<rounding, vector, wrapped, shared, owned, views>>

RoundingConventions == {"half_away_from_zero", "ties_to_even"}

NoCall == [op |-> "none", h |-> NULL, arg |-> <<>>, res |-> Ok, pre |-> EmptyHeap]

(***************************************************************************)
(* Spec: the life of UnitCell values.  No operation of it calls round().   *)
(***************************************************************************)
Init ==
    /\ heap = EmptyHeap
    /\ last = NoCall
    /\ rounding = "half_away_from_zero"
    /\ vector = <<0, 0, 0>>
    /\ wrapped = <<>>
    /\ shared = NoValues
    /\ owned = OwnersOf(heap)
    /\ views = NoValues

Next ==
    \/ \E l \in LengthInputs : new(l)
    \/ \E l \in LengthInputs, ang \in AngleInputs : triclinic(l, ang)
    \/ infinite
    \/ \E h \in Handles : clone(h)
    \/ \E h \in Handles, l \in LengthInputs : set_lengths(h, l)
    \/ \E h \in Handles, ang \in AngleInputs : set_angles(h, ang)
    \/ \E h \in Handles, s \in Shapes : set_shape(h, s)
    \/ \E h \in Handles : drop(h)

Spec == Init /\ [][Next]_vars

(***************************************************************************)
(* The heaps holding one value just built by a constructor.                *)
(***************************************************************************)
InfiniteHeap ==
    [EmptyHeap EXCEPT ![1] = chfl_cell_set_shape(chfl_cell(EmptyHeap, <<0, 0, 0>>).heap[1],
                                                 CHFL_CELL_INFINITE).obj]

ConstructedCells ==
    ({chfl_cell(EmptyHeap, l).heap : l \in LengthInputs}
        \cup {chfl_cell_triclinic(EmptyHeap, l, ang).heap : l \in LengthInputs, ang \in AngleInputs}
        \cup {InfiniteHeap}) \ {EmptyHeap}

ConstructedAtoms == {chfl_atom(EmptyHeap, to_c(name)).heap : name \in NameInputs}

(***************************************************************************)
(* WrapSpec: a cell is built and set up, then wrap() is applied, and       *)
(* applied again, to a vector.                                             *)
(***************************************************************************)
\* the example of the documentation of UnitCell::wrap, in tenths:
\* new([10.0, 20.0, 30.0]) and the vector [12.0, 5.2, -45.3]
DocCell == chfl_cell(EmptyHeap, <<100, 200, 300>>).heap

DocVector == <<120, 52, -453>>

WrapInit ==
    /\ heap \in ConstructedCells \cup {DocCell}
    /\ last = NoCall
    /\ rounding \in RoundingConventions
    /\ vector \in VectorInputs \cup {DocVector}
    /\ wrapped = <<>>
    /\ shared = NoValues
    /\ owned = OwnersOf(heap)
    /\ views = NoValues

WrapNext ==
    \/ \E h \in Handles : wrap(h)
    \/ \E h \in Handles, l \in LengthInputs : wrapped = <<>> /\ set_lengths(h, l)
    \/ \E h \in Handles, ang \in AngleInputs : wrapped = <<>> /\ set_angles(h, ang)
    \/ \E h \in Handles, s \in Shapes : wrapped = <<>> /\ set_shape(h, s)

WrapSpec == WrapInit /\ [][WrapNext]_vars

(***************************************************************************)
(* SetterSpec: the setters applied to one value.                           *)
(***************************************************************************)
SetterInit ==
    /\ heap \in ConstructedCells \cup ConstructedAtoms
    /\ last = NoCall
    /\ rounding = "half_away_from_zero"
    /\ vector = <<0, 0, 0>>
    /\ wrapped = <<>>
    /\ shared = NoValues
    /\ owned = OwnersOf(heap)
    /\ views = NoValues

\* set_lengths is also given lengths that differ from one another
SetterLengths == LengthInputs \cup {<<10, 20, 30>>}

SetterNext ==
    \/ \E h \in Handles, l \in SetterLengths : set_lengths(h, l)
    \/ \E h \in Handles, ang \in AngleInputs : set_angles(h, ang)
    \/ \E h \in Handles, s \in Shapes : set_shape(h, s)
    \/ \E h \in Handles, m \in MassInputs : set_mass(h, m)
    \/ \E h \in Handles, c \in ChargeInputs : set_charge(h, c)
    \/ \E h \in Handles, n \in NameInputs : set_name(h, n)
    \/ \E h \in Handles, t \in TypeInputs : set_atom_type(h, t)

SetterSpec == SetterInit /\ [][SetterNext]_vars

(***************************************************************************)
(* AtomSpec: the life of one Atom value at a time: Atom::new, the setters, *)
(* drop.                                                                   *)
(***************************************************************************)
\* names and types: empty, elements of the table, unknown, and of 10 and 12 bytes
AtomStrings == {"", "He", "Zn", "P", "Xx", "Zn-12", "Zn-1234567", "Molybdenum42"}

AtomInit ==
    /\ heap = EmptyHeap
    /\ last = NoCall
    /\ rounding = "half_away_from_zero"
    /\ vector = <<0, 0, 0>>
    /\ wrapped = <<>>
    /\ shared = NoValues
    /\ owned = OwnersOf(heap)
    /\ views = NoValues

AtomNext ==
    \/ \E str \in AtomStrings : Atoms(heap) = {} /\ atom_new(str)
    \/ \E h \in Handles, m \in MassInputs : set_mass(h, m)
    \/ \E h \in Handles, c \in ChargeInputs : set_charge(h, c)
    \/ \E h \in Handles, str \in AtomStrings : set_name(h, str)
    \/ \E h \in Handles, str \in AtomStrings : set_atom_type(h, str)
    \/ \E h \in Handles : atom_drop(h)

AtomSpec == AtomInit /\ [][AtomNext]_vars

(***************************************************************************)
(* ErrorSpec: check applied to every status of the native engine, next to  *)
(* constructors that run out of handles or are refused and setters that    *)
(* fail.                                                                   *)
(***************************************************************************)
\* check(status), called with a status the native engine returned
check_call(status) ==
    /\ last' = Call("check", NULL, status, check(status))
    /\ UNCHANGED <<heap, rounding, vector, wrapped, shared, owned, views>>

ErrorNext ==
    \/ \E status \in Statuses : check_call(status)
    \/ \E l \in LengthInputs : new(l)
    \/ \E l \in LengthInputs, ang \in {Right, <<180, 90, 90>>} : triclinic(l, ang)
    \/ \E str \in NameInputs : atom_new(str)
    \/ \E h \in Handles, ang \in AngleInputs : set_angles(h, ang)
    \/ \E h \in Handles, m \in MassInputs : set_mass(h, m)
    \/ \E h \in Handles : drop(h)
    \/ \E h \in Handles : atom_drop(h)

ErrorSpec == AtomInit /\ [][ErrorNext]_vars

(***************************************************************************)
(* OwnSpec: owned UnitCell values, their clones, and the views handed out  *)
(* on them, each dropped at any time.                                      *)
(***************************************************************************)
OwnNext ==
    \/ \E l \in LengthInputs : new(l)
    \/ \E h \in Handles : clone(h)
    \/ \E h \in Handles : ref_from_ptr(h)
    \/ \E h \in Handles : ref_mut_from_ptr(h)
    \/ \E h \in Handles : view_drop(h)
    \/ \E h \in Handles : drop(h)

OwnSpec == Init /\ [][OwnNext]_vars

(***************************************************************************)
(* Properties.  A call is recorded in last with the heap it found, so that *)
(* what a call did is a predicate of the state it leaves.                  *)
(***************************************************************************)
Before == last.pre[last.h]

After == heap[last.h]

Succeeded(op) == last.op = op /\ last.res = Ok

\* C1: in every reachable state a cell whose shape() is Orthorhombic reports
\* angles() = (90, 90, 90); in particular right after set_shape(Orthorhombic)
\* on a Triclinic cell whose angles were not 90
C1_OrthorhombicAngles ==
    /\ \A h \in Cells(heap) : shape(heap[h]) = Orthorhombic => angles(heap[h]) = Right
    /\ Succeeded("set_shape") /\ last.arg = Orthorhombic
           => shape(After) = Orthorhombic /\ angles(After) = Right

C1_Witness ==
    /\ Succeeded("set_shape")
    /\ last.arg = Orthorhombic
    /\ shape(Before) = Triclinic
    /\ angles(Before) = <<90, 90, 53>>
    /\ angles(After) = Right

Finite(x) == x # NaN

Positive(x) == Finite(x) /\ x > 0

ValidAngles(ang) == \A i \in 1..3 : AngleInRange(ang[i])

Diagonal(l) == <<<<l[1], 0, 0>>, <<0, l[2], 0>>, <<0, 0, l[3]>>>>

CellSetters == {"set_lengths", "set_angles", "set_shape"}

\* C4: a clone is a new native object reporting the lengths, angles and shape
\* the original had when it was cloned, and the original is left as it was;
\* a set_lengths, set_angles or set_shape on one cell leaves the lengths,
\* angles, shape and matrix of every other cell, its clone included, unchanged
C4_CloneIndependence ==
    /\ Succeeded("clone") =>
           /\ last.arg # last.h
           /\ last.arg \in Cells(heap) \ Cells(last.pre)
           /\ lengths(heap[last.arg]) = lengths(Before)
           /\ angles(heap[last.arg]) = angles(Before)
           /\ shape(heap[last.arg]) = shape(Before)
           /\ After = Before
    /\ last.op \in CellSetters =>
           \A g \in Handles \ {last.h} : heap[g] = last.pre[g]

C4_Witness ==
    /\ Succeeded("set_lengths")
    /\ \E g \in Cells(heap) \ {last.h} :
           /\ heap[g] = Before
           /\ lengths(heap[g]) = <<10, 10, 10>>
           /\ angles(heap[g]) = <<90, 90, 53>>
    /\ lengths(After) = <<0, 0, 0>>

AtomSetters == {"set_mass", "set_charge", "set_name", "set_atom_type"}

C6_WrapIdempotent ==
    \A i \in 2..Len(wrapped) : wrapped[i] = wrapped[i - 1]

FiniteVector(v) == \A i \in 1..3 : Finite(v[i])

\* the matrix has finite entries and a non-zero diagonal: matrix . f = v has one solution
Invertible(m) == (\A i \in 1..3 : FiniteVector(m[i])) /\ (\A i \in 1..3 : m[i][i] # 0)

\* v - w is an integer combination of the basis vectors (the columns of m):
\* the solution n of m . n = v - w is made of integers
IntegerCombination(m, v, w) ==
    LET n == Fractional(m, [i \in 1..3 |-> v[i] - w[i]])
    IN  \A i \in 1..3 : n[i][1] % Abs(n[i][2]) = 0

\* the fractional coordinates of w lie in [-1/2, 1/2), or in [-1/2, 1/2] when closed
FractionalInHalfCell(m, w, closed) ==
    \A i \in 1..3 :
        LET f == Fractional(m, w)[i]
            num == IF f[2] < 0 THEN -f[1] ELSE f[1]
            den == Abs(f[2])
        IN  /\ -den <= 2 * num
            /\ IF closed THEN 2 * num <= den ELSE 2 * num < den

\* C7 as stated: in a non-Infinite cell wrap(v) differs from v by an integer
\* combination of the basis vectors and its fractional coordinates lie in
\* [-0.5, 0.5); in an Infinite cell wrap(v) = v
C7_AsStated ==
    last.op = "wrap" =>
        IF shape(After) = Infinite THEN vector = last.arg
        ELSE FiniteVector(last.arg) =>
               /\ FiniteVector(vector)
               /\ Invertible(matrix(After))
               /\ IntegerCombination(matrix(After), last.arg, vector)
               /\ FractionalInHalfCell(matrix(After), vector, FALSE)

\* C7, amended: in a non-Infinite cell whose matrix is invertible (non-zero
\* lengths, non-degenerate angles) wrap(v) differs from v by an integer
\* combination of the basis vectors and its fractional coordinates lie in the
\* closed interval [-0.5, 0.5]; in an Orthorhombic cell of lengths L each
\* component is v_i - L_i * round(v_i / L_i); in an Infinite cell wrap(v) = v
C7_WrapResult ==
    last.op = "wrap" =>
        IF shape(After) = Infinite THEN vector = last.arg
        ELSE FiniteVector(last.arg) /\ Invertible(matrix(After)) =>
               /\ FiniteVector(vector)
               /\ IntegerCombination(matrix(After), last.arg, vector)
               /\ FractionalInHalfCell(matrix(After), vector, TRUE)
               /\ shape(After) = Orthorhombic =>
                      \A i \in 1..3 :
                          vector[i] = last.arg[i]
                              - lengths(After)[i] * Round(last.arg[i], lengths(After)[i], rounding)

C7_Witness ==
    /\ last.op = "wrap"
    /\ shape(After) = Orthorhombic
    /\ lengths(After) = <<100, 200, 300>>
    /\ last.arg = <<120, 52, -453>>
    /\ vector = <<20, 52, 147>>

\* C8: in every reachable state a cell whose shape() is Infinite reports
\* lengths() = (0, 0, 0) and angles() = (90, 90, 90) whatever its matrix holds;
\* infinite() and set_shape(Infinite) leave such a cell, and set_lengths keeps it one
C8_InfiniteReporting ==
    /\ \A h \in Cells(heap) :
           shape(heap[h]) = Infinite
               => lengths(heap[h]) = <<0, 0, 0>> /\ angles(heap[h]) = Right
    /\ Succeeded("infinite") => shape(After) = Infinite
    /\ Succeeded("set_shape") /\ last.arg = Infinite => shape(After) = Infinite
    /\ Succeeded("set_lengths") /\ shape(Before) = Infinite => shape(After) = Infinite

C8_Witness ==
    /\ Succeeded("set_lengths")
    /\ last.arg = <<10, 10, 10>>
    /\ shape(After) = Infinite
    /\ matrix(After) = <<<<10, 0, 0>>, <<0, 10, 0>>, <<0, 0, 10>>>>
    /\ lengths(After) = <<0, 0, 0>>
    /\ angles(After) = Right

ValidLengths(l) == \A i \in 1..3 : Finite(l[i]) /\ l[i] >= 0

\* C9 as stated, its sentence on inputs: a constructor (new, triclinic) or a
\* setter (set_lengths, set_angles) given a negative length or an angle outside
\* (0, 180) returns an error, so that no such value is ever stored
C9_InvalidInputRejected ==
    /\ last.op \in {"new", "set_lengths"} /\ ~ValidLengths(last.arg) => last.res # Ok
    /\ last.op = "triclinic" /\ ~(ValidLengths(last.arg[1]) /\ ValidAngles(last.arg[2]))
           => last.res # Ok
    /\ last.op = "set_angles" /\ ~ValidAngles(last.arg) => last.res # Ok

AllPositive(l) == \A i \in 1..3 : Positive(l[i])

C11_AtomAttributesIndependent ==
    /\ Succeeded("atom_new") =>
           /\ After.name = last.arg /\ After.type = last.arg
           /\ atom_name(After) = atom_type(After)
    /\ Succeeded("set_name") =>
           /\ After.name = last.arg
           /\ After = [Before EXCEPT !.name = last.arg]
           /\ atom_type(After) = atom_type(Before)
           /\ atom_mass(After) = atom_mass(Before)
           /\ atom_charge(After) = atom_charge(Before)
    /\ Succeeded("set_atom_type") =>
           /\ After.type = last.arg
           /\ After = [Before EXCEPT !.type = last.arg]
           /\ atom_name(After) = atom_name(Before)
           /\ atom_mass(After) = atom_mass(Before)
           /\ atom_charge(After) = atom_charge(Before)
    /\ Succeeded("set_mass") =>
           /\ atom_mass(After) = last.arg
           /\ After = [Before EXCEPT !.mass = last.arg]
           /\ atom_name(After) = atom_name(Before)
           /\ atom_type(After) = atom_type(Before)
           /\ atom_charge(After) = atom_charge(Before)
    /\ Succeeded("set_charge") =>
           /\ atom_charge(After) = last.arg
           /\ After = [Before EXCEPT !.charge = last.arg]
           /\ atom_name(After) = atom_name(Before)
           /\ atom_type(After) = atom_type(Before)
           /\ atom_mass(After) = atom_mass(Before)

C11_Witness ==
    /\ Succeeded("set_atom_type")
    /\ last.arg = "Zn"
    /\ atom_type(Before) = "He"
    /\ atom_type(After) = "Zn"
    /\ atom_name(After) = "He"
    /\ atom_mass(After) = 4002602
    /\ atom_charge(After) = 0 - 1500000

\* C12: whatever setters were called, the derived lookups of a live atom return
\* the element-table entry of its current type, and for a type that is not in
\* the table the sentinels "", -1, -1, -1; they never return an error
DerivedLookups(o) ==
    /\ full_name(o) = ElementFullName(o.type)
    /\ vdw_radius(o) = ElementVdwRadius(o.type)
    /\ covalent_radius(o) = ElementCovalentRadius(o.type)
    /\ atomic_number(o) = ElementNumber(o.type)
    /\ o.type \notin KnownElements =>
           /\ full_name(o) = ""
           /\ vdw_radius(o) = NoRadius
           /\ covalent_radius(o) = NoRadius
           /\ atomic_number(o) = 0 - 1

C12_DerivedLookups == \A h \in Atoms(heap) : DerivedLookups(heap[h])

\* C13: check(status) is Ok exactly for the success status and otherwise the
\* error kind of that status (CXX CppStdError, GENERIC ChemfilesCppError, MEMORY
\* MemoryError, FILE FileError, FORMAT FormatError, SELECTION SelectionError); a
\* constructor that got a null handle returns Err(NullPtr); no constructor,
\* setter or check panics
ConstructorCalls == {"new", "triclinic", "infinite", "atom_new"}

SetterCalls == CellSetters \cup AtomSetters

KindOf(status) ==
    CASE status = "CHFL_CXX_ERROR" -> "CppStdError"
      [] status = "CHFL_GENERIC_ERROR" -> "ChemfilesCppError"
      [] status = "CHFL_MEMORY_ERROR" -> "MemoryError"
      [] status = "CHFL_FILE_ERROR" -> "FileError"
      [] status = "CHFL_FORMAT_ERROR" -> "FormatError"
      [] status = "CHFL_SELECTION_ERROR" -> "SelectionError"
      [] OTHER -> "none"

C13_FailuresReturned ==
    /\ last.op = "check" =>
           /\ last.res = "Ok" <=> last.arg = "CHFL_SUCCESS"
           /\ last.arg # "CHFL_SUCCESS" => last.res = KindOf(last.arg)
    /\ last.op \in ConstructorCalls =>
           /\ last.h = NULL => last.res = "NullPtr"
           /\ last.h # NULL => last.res = "Ok"
    /\ last.op \in ConstructorCalls \cup SetterCalls \cup {"check"} => last.res # Panic

C13_Witness ==
    /\ last.op = "check"
    /\ last.arg = CHFL_MEMORY_ERROR
    /\ last.res = "MemoryError"
    /\ Atoms(heap) # {}

\* C14: after set_name(s) succeeds name() returns exactly s, and after
\* set_atom_type(s) succeeds atom_type() returns exactly s, for every string s,
\* the empty one included
C14_NameTypeRoundTrip ==
    /\ Succeeded("set_name") => atom_name(After) = last.arg
    /\ Succeeded("set_atom_type") => atom_type(After) = last.arg

\* C15: every live UnitCell value, owned or embedded in a view, holds a handle
\* whose cell the engine has not released; every chfl_cell_free hits a live
\* cell (no handle is released twice); dropping a value leaves every other
\* handle as it was; dropping a view leaves the cell of a parent that still
\* owns the handle alive and as it was
References(h) == IF IsCell(heap[h]) THEN 1 + shared[h] ELSE 0

Holders(h) == owned[h] + views[h]

====
